---- MODULE Spec2Model ----
(***************************************************************************)
(* Model of blivedm.BLiveClient (src/blivedm.py): the packet codec          *)
(* (_make_packet / HEADER_STRUCT), the frame loop of _handle_message, the   *)
(* recursive command processor _handle_command, the heartbeat sender and    *)
(* the connection driver start().                                           *)
(*                                                                          *)
(* Buffers are sequences of bytes (0..255).  JSON values are records of    *)
(* one uniform shape [t, n, s, items]:                                      *)
(*   t = "null" | "true" | "false" | "num" | "str" | "list" | "obj"         *)
(*   n      the value of a number                                           *)
(*   s      the bytes of a string                                           *)
(*   items  the elements of a list; for an object key1, value1, key2, ...   *)
(***************************************************************************)
EXTENDS Integers, Sequences, FiniteSets, TLC

-----------------------------------------------------------------------------
(* Bounds of the model *)

\* entries kept in each per-message history (a full history stops recording)
MaxLog == 6
\* frames concatenated into one inbound message
MaxFrames == 2
\* sockets opened over the life of one client
MaxConn == 2

-----------------------------------------------------------------------------
(* class Operation(IntEnum) *)

SEND_HEARTBEAT == 2
POPULARITY == 3
COMMAND == 5
AUTH == 7
RECV_HEARTBEAT == 8

-----------------------------------------------------------------------------
(* Bytes and Python slicing *)

Min(a, b) == IF a < b THEN a ELSE b

\* message[a:b] for 0 <= a, 0 <= b (Python clips the slice to the buffer)
PySlice(s, a, b) == SubSeq(s, a + 1, Min(b, Len(s)))

RECURSIVE ToBytes(_, _)
\* int.to_bytes(n, k, 'big') as struct.pack writes an unsigned field
ToBytes(n, k) == IF k = 0 THEN << >> ELSE ToBytes(n \div 256, k - 1) \o << n % 256 >>

RECURSIVE FromBytes(_)
\* int.from_bytes(b, 'big'); the empty slice gives 0
FromBytes(b) ==
    IF Len(b) = 0 THEN 0
    ELSE FromBytes(SubSeq(b, 1, Len(b) - 1)) * 256 + b[Len(b)]

\* HEADER_STRUCT = struct.Struct('>I2H2I'): HEADER_STRUCT.size
HEADER_STRUCT_size == 4 + 2 + 2 + 4 + 4

\* HEADER_STRUCT.pack(total_len, header_len, proto_ver, operation, sequence)
HEADER_STRUCT_pack(total_len, header_len, proto_ver, operation, sequence) ==
    ToBytes(total_len, 4) \o ToBytes(header_len, 2) \o ToBytes(proto_ver, 2)
        \o ToBytes(operation, 4) \o ToBytes(sequence, 4)

\* HeaderTuple(*HEADER_STRUCT.unpack_from(message, offset)); ok = FALSE is
\* struct.error (fewer than HEADER_STRUCT.size bytes from offset on)
HEADER_STRUCT_unpack_from(message, offset) ==
    IF Len(message) - offset < HEADER_STRUCT_size
    THEN [ok |-> FALSE, total_len |-> 0, header_len |-> 0, proto_ver |-> 0,
          operation |-> 0, sequence |-> 0]
    ELSE [ok |-> TRUE,
          total_len  |-> FromBytes(PySlice(message, offset, offset + 4)),
          header_len |-> FromBytes(PySlice(message, offset + 4, offset + 6)),
          proto_ver  |-> FromBytes(PySlice(message, offset + 6, offset + 8)),
          operation  |-> FromBytes(PySlice(message, offset + 8, offset + 12)),
          sequence   |-> FromBytes(PySlice(message, offset + 12, offset + 16))]

-----------------------------------------------------------------------------
(* JSON values *)

JNull == [t |-> "null", n |-> 0, s |-> << >>, items |-> << >>]
JTrue == [t |-> "true", n |-> 0, s |-> << >>, items |-> << >>]
JFalse == [t |-> "false", n |-> 0, s |-> << >>, items |-> << >>]
JNum(k) == [t |-> "num", n |-> k, s |-> << >>, items |-> << >>]
JStr(b) == [t |-> "str", n |-> 0, s |-> b, items |-> << >>]
JList(xs) == [t |-> "list", n |-> 0, s |-> << >>, items |-> xs]
JObj(kvs) == [t |-> "obj", n |-> 0, s |-> << >>, items |-> kvs]

\* the strings of the source, as their ASCII bytes
S_cmd == << 99, 109, 100 >>
S_info == << 105, 110, 102, 111 >>
S_DANMU_MSG == << 68, 65, 78, 77, 85, 95, 77, 83, 71 >>
S_SEND_GIFT == << 83, 69, 78, 68, 95, 71, 73, 70, 84 >>
S_WELCOME == << 87, 69, 76, 67, 79, 77, 69 >>
S_PREPARING == << 80, 82, 69, 80, 65, 82, 73, 78, 71 >>
S_LIVE == << 76, 73, 86, 69 >>
S_uid == << 117, 105, 100 >>
S_roomid == << 114, 111, 111, 109, 105, 100 >>
S_protover == << 112, 114, 111, 116, 111, 118, 101, 114 >>
S_platform == << 112, 108, 97, 116, 102, 111, 114, 109 >>
S_web == << 119, 101, 98 >>
S_clientver == << 99, 108, 105, 101, 110, 116, 118, 101, 114 >>
S_1_4_0 == << 49, 46, 52, 46, 48 >>
S_null == << 110, 117, 108, 108 >>
S_true == << 116, 114, 117, 101 >>
S_false == << 102, 97, 108, 115, 101 >>

-----------------------------------------------------------------------------
(* json.dumps(data).encode('utf-8'), default separators ', ' and ': ' *)

RECURSIVE Digits(_)
Digits(k) == IF k < 10 THEN << 48 + k >> ELSE Digits(k \div 10) \o << 48 + (k % 10) >>

RECURSIVE JsonDumps(_), DumpItems(_, _), DumpMembers(_, _)

DumpItems(xs, i) ==
    IF i > Len(xs) THEN << >>
    ELSE (IF i > 1 THEN << 44, 32 >> ELSE << >>) \o JsonDumps(xs[i]) \o DumpItems(xs, i + 1)

DumpMembers(kvs, i) ==
    IF i > Len(kvs) THEN << >>
    ELSE (IF i > 1 THEN << 44, 32 >> ELSE << >>)
            \o << 34 >> \o kvs[i].s \o << 34, 58, 32 >> \o JsonDumps(kvs[i + 1])
            \o DumpMembers(kvs, i + 2)

JsonDumps(v) ==
    CASE v.t = "null" -> S_null
      [] v.t = "true" -> S_true
      [] v.t = "false" -> S_false
      [] v.t = "num" -> Digits(v.n)
      [] v.t = "str" -> << 34 >> \o v.s \o << 34 >>
      [] v.t = "list" -> << 91 >> \o DumpItems(v.items, 1) \o << 93 >>
      [] v.t = "obj" -> << 123 >> \o DumpMembers(v.items, 1) \o << 125 >>

-----------------------------------------------------------------------------
(* body.decode('utf-8'): ok = FALSE is UnicodeDecodeError *)

IsCont(c) == c >= 128 /\ c <= 191

\* number of bytes of the UTF-8 character led by byte c
CharLen(c) == IF c < 128 THEN 1 ELSE IF c < 224 THEN 2 ELSE IF c < 240 THEN 3 ELSE 4

\* a byte that may start a multi-byte character
IsLead(c) == c >= 194 /\ c <= 244

\* every byte is ASCII, or a lead byte followed by its continuation bytes, or
\* a continuation byte that some lead byte before it accounts for
Utf8Valid(b) ==
    \A i \in 1 .. Len(b) :
        LET c == b[i] IN
        CASE c < 128 -> TRUE
          [] IsLead(c) ->
                /\ i + CharLen(c) - 1 <= Len(b)
                /\ \A k \in 1 .. CharLen(c) - 1 : IsCont(b[i + k])
                /\ (c = 224 => b[i + 1] >= 160)
                /\ (c = 237 => b[i + 1] <= 159)
                /\ (c = 240 => b[i + 1] >= 144)
                /\ (c = 244 => b[i + 1] <= 143)
          [] IsCont(c) ->
                \E k \in 1 .. 3 :
                    /\ i - k >= 1
                    /\ IsLead(b[i - k])
                    /\ CharLen(b[i - k]) > k
                    /\ \A j \in 1 .. k - 1 : IsCont(b[i - j])
          [] OTHER -> FALSE

-----------------------------------------------------------------------------
(* json.loads(text): ok = FALSE is json.JSONDecodeError.  The grammar       *)
(* covered: null, true, false, non-negative integers, strings without       *)
(* escapes, arrays, objects, whitespace between tokens.                     *)

ParseFail == [ok |-> FALSE, val |-> JNull, pos |-> 0]
ParseOk(v, p) == [ok |-> TRUE, val |-> v, pos |-> p]

IsWs(c) == c \in {32, 9, 10, 13}
IsDigit(c) == c >= 48 /\ c <= 57

RECURSIVE SkipWs(_, _)
SkipWs(s, i) == IF i <= Len(s) /\ IsWs(s[i]) THEN SkipWs(s, i + 1) ELSE i

RECURSIVE StringEnd(_, _)
\* index of the closing quote of a string whose text starts at i, 0 if none
StringEnd(s, i) ==
    IF i > Len(s) THEN 0
    ELSE IF s[i] = 34 THEN i
    ELSE IF s[i] < 32 \/ s[i] = 92 THEN 0
    ELSE StringEnd(s, i + 1)

RECURSIVE FromDigits(_)
FromDigits(d) ==
    IF Len(d) = 0 THEN 0
    ELSE FromDigits(SubSeq(d, 1, Len(d) - 1)) * 10 + (d[Len(d)] - 48)

RECURSIVE NumberEnd(_, _)
NumberEnd(s, i) == IF i <= Len(s) /\ IsDigit(s[i]) THEN NumberEnd(s, i + 1) ELSE i

\* a dict keeps one entry per key: a repeated key replaces the value in place
RECURSIVE ObjSet(_, _, _, _)
ObjSet(kvs, k, v, i) ==
    IF i > Len(kvs) THEN kvs \o << k, v >>
    ELSE IF kvs[i] = k THEN [kvs EXCEPT ![i + 1] = v]
    ELSE ObjSet(kvs, k, v, i + 2)

StartsWith(s, i, lit) == i + Len(lit) - 1 <= Len(s) /\ SubSeq(s, i, i + Len(lit) - 1) = lit

RECURSIVE ParseValue(_, _), ParseElems(_, _, _), ParseMembers(_, _, _)

ParseValue(s, i) ==
    LET j == SkipWs(s, i) IN
    IF j > Len(s) THEN ParseFail
    ELSE CASE s[j] = 91 ->
                LET k == SkipWs(s, j + 1) IN
                IF k <= Len(s) /\ s[k] = 93 THEN ParseOk(JList(<< >>), k + 1)
                ELSE ParseElems(s, j + 1, << >>)
           [] s[j] = 123 ->
                LET k == SkipWs(s, j + 1) IN
                IF k <= Len(s) /\ s[k] = 125 THEN ParseOk(JObj(<< >>), k + 1)
                ELSE ParseMembers(s, j + 1, << >>)
           [] s[j] = 34 ->
                LET e == StringEnd(s, j + 1) IN
                IF e = 0 THEN ParseFail ELSE ParseOk(JStr(SubSeq(s, j + 1, e - 1)), e + 1)
           [] s[j] = 48 -> ParseOk(JNum(0), j + 1)
           [] s[j] >= 49 /\ s[j] <= 57 ->
                LET e == NumberEnd(s, j) IN
                ParseOk(JNum(FromDigits(SubSeq(s, j, e - 1))), e)
           [] StartsWith(s, j, S_null) -> ParseOk(JNull, j + 4)
           [] StartsWith(s, j, S_true) -> ParseOk(JTrue, j + 4)
           [] StartsWith(s, j, S_false) -> ParseOk(JFalse, j + 5)
           [] OTHER -> ParseFail

ParseElems(s, i, acc) ==
    LET r == ParseValue(s, i) IN
    IF ~r.ok THEN ParseFail
    ELSE LET j == SkipWs(s, r.pos) IN
         IF j > Len(s) THEN ParseFail
         ELSE IF s[j] = 44 THEN ParseElems(s, j + 1, Append(acc, r.val))
         ELSE IF s[j] = 93 THEN ParseOk(JList(Append(acc, r.val)), j + 1)
         ELSE ParseFail

ParseMembers(s, i, acc) ==
    LET j == SkipWs(s, i) IN
    IF j > Len(s) \/ s[j] # 34 THEN ParseFail
    ELSE LET e == StringEnd(s, j + 1) IN
         IF e = 0 THEN ParseFail
         ELSE LET key == JStr(SubSeq(s, j + 1, e - 1))
                  c == SkipWs(s, e + 1)
              IN  IF c > Len(s) \/ s[c] # 58 THEN ParseFail
                  ELSE LET r == ParseValue(s, c + 1) IN
                       IF ~r.ok THEN ParseFail
                       ELSE LET d == SkipWs(s, r.pos)
                                acc2 == ObjSet(acc, key, r.val, 1)
                            IN  IF d > Len(s) THEN ParseFail
                                ELSE IF s[d] = 44 THEN ParseMembers(s, d + 1, acc2)
                                ELSE IF s[d] = 125 THEN ParseOk(JObj(acc2), d + 1)
                                ELSE ParseFail

\* json.loads(body.decode('utf-8')): err is "" or the exception raised
JsonLoads(body) ==
    IF ~Utf8Valid(body) THEN [err |-> "UnicodeDecodeError", val |-> JNull]
    ELSE LET r == ParseValue(body, 1) IN
         IF r.ok /\ SkipWs(body, r.pos) > Len(body)
         THEN [err |-> "", val |-> r.val]
         ELSE [err |-> "JSONDecodeError", val |-> JNull]

-----------------------------------------------------------------------------
(* BLiveClient._make_packet *)

\* total_len written without the header: len(body) alone
_make_packet_body_len(data, operation) ==
    LET body == JsonDumps(data)
        header == HEADER_STRUCT_pack(Len(body), HEADER_STRUCT_size, 1, operation, 1)
    IN  header \o body

_make_packet(data, operation) ==
    LET body == JsonDumps(data)
        header == HEADER_STRUCT_pack(HEADER_STRUCT_size + Len(body),
                                     HEADER_STRUCT_size, 1, operation, 1)
    IN  header \o body

\* self._room_id = None, self._websocket = None
None == 0
\* self._uid = 0 (not logged in)
_uid == 0

\* auth_params of _send_auth
auth_params(room) ==
    JObj(<< JStr(S_uid), JNum(_uid),
            JStr(S_roomid), JNum(room),
            JStr(S_protover), JNum(1),
            JStr(S_platform), JStr(S_web),
            JStr(S_clientver), JStr(S_1_4_0) >>)

-----------------------------------------------------------------------------
(* Python subscripting of a decoded JSON value: err is "" or the exception  *)

Got(v) == [err |-> "", val |-> v]
Raised(e) == [err |-> e, val |-> JNull]

RECURSIVE DictGet(_, _, _)
DictGet(kvs, key, i) ==
    IF i > Len(kvs) THEN Raised("KeyError")
    ELSE IF kvs[i].s = key THEN Got(kvs[i + 1])
    ELSE DictGet(kvs, key, i + 2)

RECURSIVE CharAt(_, _, _)
\* the k-th character (0-based) of the str whose bytes from position i on are b
CharAt(b, i, k) ==
    IF i > Len(b) THEN Raised("IndexError")
    ELSE IF k = 0 THEN Got(JStr(SubSeq(b, i, i + CharLen(b[i]) - 1)))
    ELSE CharAt(b, i + CharLen(b[i]), k - 1)

\* v[key] for a str key
GetKey(v, key) ==
    CASE v.t = "obj" -> DictGet(v.items, key, 1)
      [] OTHER -> Raised("TypeError")

\* v[k] for an int k >= 0
GetIndex(v, k) ==
    CASE v.t = "list" -> IF k < Len(v.items) THEN Got(v.items[k + 1]) ELSE Raised("IndexError")
      [] v.t = "str" -> CharAt(v.s, 1, k)
      [] v.t = "obj" -> Raised("KeyError")
      [] OTHER -> Raised("TypeError")

-----------------------------------------------------------------------------
(* Histories of one _handle_message call.  A history that holds MaxLog      *)
(* entries stops recording; the program goes on.                            *)

Record(h, e) == IF Len(h) < MaxLog THEN Append(h, e) ELSE h

\* frames: the headers parsed, with the branch of the dispatch each one took;
\* hooks: the hook calls; dispatched: the commands that reached the cmd
\* dispatch; printed: the commands reported as unknown; sent0: how many
\* packets the socket had been sent when the message arrived
NoLog == [frames |-> << >>, hooks |-> << >>, dispatched |-> << >>, printed |-> << >>,
          sent0 |-> 0]

\* await self._on_get_popularity(popularity): the hook itself does nothing
_on_get_popularity(l, popularity) ==
    [l EXCEPT !.hooks = Record(@, [hook |-> "popularity", popularity |-> popularity,
                                   content |-> JNull, user_name |-> JNull])]

\* await self._on_get_danmaku(content, user_name): the hook itself does nothing
_on_get_danmaku(l, content, user_name) ==
    [l EXCEPT !.hooks = Record(@, [hook |-> "danmaku", popularity |-> 0,
                                   content |-> content, user_name |-> user_name])]

-----------------------------------------------------------------------------
(* BLiveClient._handle_command: st = [err, log]; a raised exception stops   *)
(* everything after it                                                      *)

\* the else branch raising instead of printing
UnknownCommand_raises(st, command) == [st EXCEPT !.err = "ValueError"]

\* the else branch: print('unknown command:', command)
UnknownCommand(st, command) == [st EXCEPT !.log.printed = Record(@, command)]

\* the DANMU_MSG branch, arguments evaluated left to right
DanmuMsg(st, command) ==
    LET info == GetKey(command, S_info)
        content == GetIndex(info.val, 1)
        info2 == GetIndex(info.val, 2)
        user_name == GetIndex(info2.val, 1)
    IN  IF info.err # "" THEN [st EXCEPT !.err = info.err]
        ELSE IF content.err # "" THEN [st EXCEPT !.err = content.err]
        ELSE IF info2.err # "" THEN [st EXCEPT !.err = info2.err]
        ELSE IF user_name.err # "" THEN [st EXCEPT !.err = user_name.err]
        ELSE [st EXCEPT !.log = _on_get_danmaku(@, content.val, user_name.val)]

\* lines 110-129: command is not a list
DispatchOne(st, command) ==
    LET cmd == GetKey(command, S_cmd) IN
    IF cmd.err # "" THEN [st EXCEPT !.err = cmd.err]
    ELSE LET st1 == [st EXCEPT !.log.dispatched = Record(@, command)] IN
         CASE cmd.val = JStr(S_DANMU_MSG) -> DanmuMsg(st1, command)
           [] cmd.val = JStr(S_SEND_GIFT) -> st1
           [] cmd.val = JStr(S_WELCOME) -> st1
           [] cmd.val = JStr(S_PREPARING) -> st1
           [] cmd.val = JStr(S_LIVE) -> st1
           [] OTHER -> UnknownCommand(st1, command)

RECURSIVE _handle_command(_, _), ForEachCommand(_, _, _)

\* the loop stops one element short
ForEachCommand_skip_last(st, xs, i) ==
    IF i >= Len(xs) \/ st.err # "" THEN st
    ELSE ForEachCommand(_handle_command(st, xs[i]), xs, i + 1)

\* for one_command in command: await self._handle_command(one_command)
ForEachCommand(st, xs, i) ==
    IF i > Len(xs) \/ st.err # "" THEN st
    ELSE ForEachCommand(_handle_command(st, xs[i]), xs, i + 1)

_handle_command(st, command) ==
    IF command.t = "list" THEN ForEachCommand(st, command.items, 1)
    ELSE DispatchOne(st, command)

-----------------------------------------------------------------------------
(* The sockets.  sockets[k] is the k-th connection opened by                *)
(* websockets.connect: whether it is open, and the packets written to it.   *)

\* released counts how often the connection has been closed
NewSocket(sent) == [open |-> TRUE, sent |-> sent, released |-> 0]

\* websocket.send(packet) carried out: one whole packet is added
SocketSend(socks, w, packet) == [socks EXCEPT ![w].sent = Append(@, packet)]

\* leaving "async with websockets.connect(...)": the socket is closed
SocketClose(socks, w) == [socks EXCEPT ![w].open = FALSE, ![w].released = @ + 1]

\* the header and the body of the AUTH packet go out as two writes
_send_auth_two_writes(socks, w, room) ==
    LET packet == _make_packet(auth_params(room), AUTH)
    IN  SocketSend(SocketSend(socks, w, SubSeq(packet, 1, HEADER_STRUCT_size)),
                   w, SubSeq(packet, HEADER_STRUCT_size + 1, Len(packet)))

\* _send_auth: await self._websocket.send(self._make_packet(auth_params, AUTH))
_send_auth(socks, w, room) == SocketSend(socks, w, _make_packet(auth_params(room), AUTH))

\* _send_heartbeat: self._websocket.send(...) is called and its coroutine is
\* dropped without being awaited, so the packet never reaches the socket; and
\* nothing calls _send_heartbeat on a timer (line 78 is a TODO).
_send_heartbeat(socks, w) ==
    LET packet == _make_packet(JObj(<< >>), SEND_HEARTBEAT)
        awaited == FALSE
    IN  IF awaited THEN SocketSend(socks, w, packet) ELSE socks

-----------------------------------------------------------------------------
(* One iteration of the while loop of _handle_message (lines 82-102), for a *)
(* buffer with offset < len(message).  kind is "break" (struct.error),      *)
(* "raise" (an exception leaves _handle_message) or "next".                 *)

FrameBody(message, offset, header) ==
    PySlice(message, offset + HEADER_STRUCT_size, offset + header.total_len)

\* every frame with a JSON body taken for a command
HandlerOf_json_as_command(operation) ==
    IF operation = POPULARITY THEN "popularity"
    ELSE IF operation \in {COMMAND, AUTH, SEND_HEARTBEAT} THEN "command"
    ELSE IF operation = RECV_HEARTBEAT THEN "heartbeat"
    ELSE "none"

\* the branch of lines 88-100 an operation takes
HandlerOf(operation) ==
    IF operation = POPULARITY THEN "popularity"
    ELSE IF operation = COMMAND THEN "command"
    ELSE IF operation = RECV_HEARTBEAT THEN "heartbeat"
    ELSE "none"

FrameEntry(message, offset, header) ==
    [offset |-> offset, handler |-> HandlerOf(header.operation), total_len |-> header.total_len, header_len |-> header.header_len,
     proto_ver |-> header.proto_ver, operation |-> header.operation,
     sequence |-> header.sequence, body |-> FrameBody(message, offset, header)]

\* the offset moved past the header only
Advance_header_only(offset, header) == offset + HEADER_STRUCT_size

\* offset += header.total_len
Advance(offset, header) == offset + header.total_len

HandleFrame(message, offset, l, socks, w) ==
    LET header == HEADER_STRUCT_unpack_from(message, offset)
        l1 == [l EXCEPT !.frames = Record(@, FrameEntry(message, offset, header))]
        out(kind, e, off, lg, sk) ==
            [kind |-> kind, err |-> e, offset |-> off, log |-> lg, sockets |-> sk]
    IN  IF ~header.ok THEN out("break", "", offset, l, socks)
        ELSE IF HandlerOf(header.operation) = "popularity" THEN
            LET popularity == FromBytes(PySlice(message, offset + HEADER_STRUCT_size,
                                                offset + HEADER_STRUCT_size + 4))
            IN  out("next", "", Advance(offset, header),
                    _on_get_popularity(l1, popularity), socks)
        ELSE IF HandlerOf(header.operation) = "command" THEN
            LET body == JsonLoads(FrameBody(message, offset, header)) IN
            IF body.err # "" THEN out("raise", body.err, offset, l1, socks)
            ELSE LET st == _handle_command([err |-> "", log |-> l1], body.val) IN
                 IF st.err # "" THEN out("raise", st.err, offset, st.log, socks)
                 ELSE out("next", "", Advance(offset, header), st.log, socks)
        ELSE IF HandlerOf(header.operation) = "heartbeat" THEN
            out("next", "", Advance(offset, header), l1, _send_heartbeat(socks, w))
        ELSE out("next", "", Advance(offset, header), l1, socks)

-----------------------------------------------------------------------------
(* What the server may send *)

\* a frame as the server builds it: the header claims total_len
Frame(total_len, operation, body) ==
    HEADER_STRUCT_pack(total_len, HEADER_STRUCT_size, 1, operation, 1) \o body

\* a frame whose header tells the truth about its length
GoodFrame(operation, body) == Frame(HEADER_STRUCT_size + Len(body), operation, body)

CmdDanmu ==
    JObj(<< JStr(S_cmd), JStr(S_DANMU_MSG),
            JStr(S_info), JList(<< JNum(0), JStr(<< 104, 105 >>),
                                   JList(<< JNum(0), JStr(<< 65, 108 >>) >>) >>) >>)
CmdFoo == JObj(<< JStr(S_cmd), JStr(<< 70, 79, 79, 95, 66, 65, 82 >>) >>)
CmdNoCmd == JObj(<< >>)
CmdOf(name) == JObj(<< JStr(S_cmd), JStr(name) >>)

\* nodes (leaves and lists) inside one batch, and how deep lists nest in it
MaxNodes == 3
MaxDepth == 2

BatchLeaves == {CmdDanmu, CmdFoo, CmdNoCmd}

RECURSIVE Nodes(_, _)
\* the number of JSON values among xs[i..] and below
Nodes(xs, i) ==
    IF i > Len(xs) THEN 0
    ELSE 1 + Nodes(xs[i].items, 1) * (IF xs[i].t = "list" THEN 1 ELSE 0) + Nodes(xs, i + 1)

RECURSIVE Batches(_, _)
\* the element sequences of at most n nodes, lists nested at most d deep
Batches(n, d) ==
    IF n = 0 THEN {<< >>}
    ELSE {<< >>}
         \cup UNION {{<< e >> \o r : r \in Batches(n - 1, d)} : e \in BatchLeaves}
         \cup (IF d = 0 THEN {}
               ELSE UNION {{<< JList(sub) >> \o r : r \in Batches(n - 1 - Nodes(sub, 1), d)}
                              : sub \in Batches(n - 1, d - 1)})

\* decoded COMMAND payloads: batches, single commands, and values that are
\* not commands at all
CommandPool ==
    {JList(xs) : xs \in Batches(MaxNodes, MaxDepth)}
    \cup BatchLeaves
    \cup {CmdOf(S_SEND_GIFT), CmdOf(S_WELCOME), CmdOf(S_PREPARING), CmdOf(S_LIVE)}
    \cup {JObj(<< JStr(S_cmd), JNum(5) >>),
          CmdOf(S_DANMU_MSG),
          JObj(<< JStr(S_cmd), JStr(S_DANMU_MSG), JStr(S_info), JList(<< JNum(0), JStr(<< 104 >>) >>) >>),
          JObj(<< JStr(S_cmd), JStr(S_DANMU_MSG), JStr(S_info), JStr(<< 97, 98, 99 >>) >>),
          JObj(<< JStr(S_cmd), JStr(S_DANMU_MSG), JStr(S_info), JNum(1) >>),
          JNum(5), JStr(S_cmd), JNull}

\* COMMAND bodies that json.loads(body.decode('utf-8')) rejects
BadBodies == {<< >>, << 123 >>, << 255 >>, << 91, 49, 44, 93 >>}

Pop100 == GoodFrame(POPULARITY, << 0, 0, 0, 100 >>)
Ping == GoodFrame(RECV_HEARTBEAT, << >>)

\* one frame per message
SingleFrames ==
    {GoodFrame(COMMAND, JsonDumps(c)) : c \in CommandPool}
    \cup {GoodFrame(COMMAND, b) : b \in BadBodies}
    \cup {GoodFrame(op, << >>) : op \in {SEND_HEARTBEAT, POPULARITY, AUTH, RECV_HEARTBEAT, 9}}
    \cup {GoodFrame(POPULARITY, << 1, 2 >>), Pop100}
    \cup {Frame(n, op, << >>) : n \in {0, 8, 20}, op \in {POPULARITY, COMMAND, RECV_HEARTBEAT, 9}}

\* the frames that are concatenated into longer messages
CoreFrames ==
    {Pop100, Ping,
     GoodFrame(POPULARITY, << 1, 2 >>),
     GoodFrame(AUTH, JsonDumps(JObj(<< >>))),
     GoodFrame(COMMAND, JsonDumps(CmdDanmu)),
     GoodFrame(COMMAND, JsonDumps(JList(<< CmdFoo, CmdDanmu >>))),
     GoodFrame(COMMAND, JsonDumps(CmdNoCmd)),
     GoodFrame(COMMAND, << 123 >>),
     Frame(0, POPULARITY, << >>),
     Frame(8, RECV_HEARTBEAT, << >>),
     Frame(24, POPULARITY, << 0, 0, 0, 100 >>),
     Frame(40, RECV_HEARTBEAT, << >>),
     Frame(40, COMMAND, JsonDumps(CmdFoo))}

RECURSIVE Concats(_)
\* the concatenations of exactly k core frames
Concats(k) ==
    IF k = 0 THEN {<< >>}
    ELSE UNION {{f \o m : m \in Concats(k - 1)} : f \in CoreFrames}

\* every way of cutting a two-frame message short
Truncated ==
    LET cut == {Pop100, Ping, GoodFrame(COMMAND, JsonDumps(CmdFoo))}
        whole == UNION {{f \o g : g \in cut} : f \in cut}
    IN  UNION {{SubSeq(m, 1, k) : k \in 0 .. Len(m) - 1} : m \in whole}

\* payloads and operations of packets the client itself could have built
Payloads ==
    {JObj(<< >>), JList(<< >>), JNull, JNum(5), JStr(S_web), CmdDanmu,
     JList(<< CmdFoo, CmdDanmu >>)} \cup {auth_params(r) : r \in {7, 23}}
Operations == {SEND_HEARTBEAT, POPULARITY, COMMAND, AUTH, RECV_HEARTBEAT}

\* the server sends back packets built by _make_packet
Echoed == {_make_packet(p, o) : p \in Payloads, o \in Operations}

RECURSIVE Flatten(_, _)
\* the commands of xs[i..] that are not lists, depth first, left to right
Flatten(xs, i) ==
    IF i > Len(xs) THEN << >>
    ELSE (IF xs[i].t = "list" THEN Flatten(xs[i].items, 1) ELSE << xs[i] >>)
            \o Flatten(xs, i + 1)

\* the batches all of whose commands carry a cmd
GoodBatches ==
    {JList(xs) : xs \in {b \in Batches(MaxNodes, MaxDepth) :
                            \A i \in 1 .. Len(Flatten(b, 1)) : Flatten(b, 1)[i] # CmdNoCmd}}

\* a batch followed by one more frame
BatchThenFrame == {GoodFrame(COMMAND, JsonDumps(c)) \o Pop100 : c \in GoodBatches}

Messages ==
    SingleFrames \cup UNION {Concats(k) : k \in 2 .. MaxFrames} \cup Truncated
        \cup Echoed \cup BatchThenFrame

\* short ids resolve to these room ids; the status codes of the lookup
RoomIds == {7, 23}
StatusCodes == {200, 404}

-----------------------------------------------------------------------------
(* The client and the calls of start() on it *)

\* the coroutines that may call start() on the one client, and the ones
\* that do: one caller, calling start() again after a call has ended
Tasks == {"t1", "t2"}
Callers == {"t1"}

VARIABLES
    room_id,      \* self._room_id
    websocket,    \* self._websocket: an index into sockets, or None
    sockets,      \* every connection opened so far
    task,         \* per call of start(): pc, err, the local websocket,
                  \* and the message and offset of _handle_message
    log           \* per call of start(): the histories of the current message

vars == << room_id, websocket, sockets, task, log >>

\* status: res.status_code of the lookup of this call, 0 before any answer
Idle == [pc |-> "idle", err |-> "", ws |-> None, message |-> << >>, offset |-> 0,
         status |-> 0]

\* BLiveClient.__init__
Init ==
    /\ room_id = None
    /\ websocket = None
    /\ sockets = << >>
    /\ task = [t \in Tasks |-> Idle]
    /\ log = [t \in Tasks |-> NoLog]

Ended(t) == task[t].pc \in {"idle", "returned", "raised"}

\* start() issues the lookup whether or not a room id is cached
Call_always_lookup(t) ==
    /\ Ended(t)
    /\ Len(sockets) < MaxConn
    /\ task' = [task EXCEPT ![t] = [Idle EXCEPT !.pc = "lookup"]]
    /\ log' = [log EXCEPT ![t] = NoLog]
    /\ UNCHANGED << room_id, websocket, sockets >>

\* start() is called: with a cached room id it goes straight to
\* websockets.connect, without one it issues the lookup (requests.get)
Call(t) ==
    /\ Ended(t)
    /\ Len(sockets) < MaxConn
    /\ task' = [task EXCEPT ![t] = [Idle EXCEPT !.pc = IF room_id = None THEN "lookup"
                                                      ELSE "connecting"]]
    /\ log' = [log EXCEPT ![t] = NoLog]
    /\ UNCHANGED << room_id, websocket, sockets >>

\* start() is called, no other call being in flight
Start(t) ==
    /\ \A u \in Tasks : Ended(u)
    /\ Call(t)

\* the status code is not looked at: the room id of the answer is stored
Lookup_ignores_status(t) ==
    /\ task[t].pc = "lookup"
    /\ \E status_code \in StatusCodes, rid \in RoomIds :
          /\ task' = [task EXCEPT ![t].pc = "connecting", ![t].status = status_code]
          /\ room_id' = rid
    /\ UNCHANGED << websocket, sockets, log >>

\* the lookup answers: any status but 200 raises ConnectionError, 200 stores
\* the room id of the answer
Lookup(t) ==
    /\ task[t].pc = "lookup"
    /\ \E status_code \in StatusCodes, rid \in RoomIds :
          IF status_code # 200
          THEN /\ task' = [task EXCEPT ![t].pc = "raised", ![t].err = "ConnectionError",
                                       ![t].status = status_code]
               /\ UNCHANGED room_id
          ELSE /\ task' = [task EXCEPT ![t].pc = "connecting", ![t].status = status_code]
               /\ room_id' = rid
    /\ UNCHANGED << websocket, sockets, log >>

\* the receive loop is entered without _send_auth
Connect_without_auth(t) ==
    /\ task[t].pc = "connecting"
    /\ LET w == Len(sockets) + 1 IN
          /\ websocket' = w
          /\ sockets' = Append(sockets, NewSocket(<< >>))
          /\ task' = [task EXCEPT ![t].pc = "recv", ![t].ws = w]
    /\ UNCHANGED << room_id, log >>

\* websockets.connect succeeds; self._websocket = websocket; _send_auth
Connect(t) ==
    /\ task[t].pc = "connecting"
    /\ LET w == Len(sockets) + 1 IN
          /\ websocket' = w
          /\ sockets' = _send_auth(Append(sockets, NewSocket(<< >>)), w, room_id)
          /\ task' = [task EXCEPT ![t].pc = "recv", ![t].ws = w]
    /\ UNCHANGED << room_id, log >>

\* websockets.connect raises: no socket
ConnectFail(t) ==
    /\ task[t].pc = "connecting"
    /\ task' = [task EXCEPT ![t].pc = "raised", ![t].err = "OSError"]
    /\ UNCHANGED << room_id, websocket, sockets, log >>

\* the connection drops before the AUTH packet is written: send raises
SendAuthFail(t) ==
    /\ task[t].pc = "connecting"
    /\ LET w == Len(sockets) + 1 IN
          /\ websocket' = w
          /\ sockets' = SocketClose(Append(sockets, NewSocket(<< >>)), w)
          /\ task' = [task EXCEPT ![t].pc = "raised", ![t].err = "ConnectionClosed",
                                  ![t].ws = w]
    /\ UNCHANGED << room_id, log >>

\* the next message is taken while _handle_message is still in its loop
RecvFrom_while_handling(t, pool) ==
    /\ task[t].pc \in {"recv", "handling"}
    /\ \E m \in pool :
          task' = [task EXCEPT ![t].pc = "handling", ![t].message = m, ![t].offset = 0]
    /\ log' = [log EXCEPT ![t] = [NoLog EXCEPT !.sent0 = Len(sockets[task[t].ws].sent)]]
    /\ UNCHANGED << room_id, websocket, sockets >>

\* async for message in websocket: the next message, one of pool, arrives
\* and _handle_message begins
RecvFrom(t, pool) ==
    /\ task[t].pc = "recv"
    /\ \A u \in Tasks : task[u].pc # "handling"
    /\ \E m \in pool :
          task' = [task EXCEPT ![t].pc = "handling", ![t].message = m, ![t].offset = 0]
    /\ log' = [log EXCEPT ![t] = [NoLog EXCEPT !.sent0 = Len(sockets[task[t].ws].sent)]]
    /\ UNCHANGED << room_id, websocket, sockets >>

Recv(t) == RecvFrom(t, Messages)

\* one iteration of the while loop of _handle_message
Step(t) ==
    /\ task[t].pc = "handling"
    /\ task[t].offset < Len(task[t].message)
    /\ LET r == HandleFrame(task[t].message, task[t].offset, log[t], sockets, websocket) IN
          /\ log' = [log EXCEPT ![t] = r.log]
          /\ CASE r.kind = "next" ->
                    /\ task' = [task EXCEPT ![t].offset = r.offset]
                    /\ sockets' = r.sockets
               [] r.kind = "break" ->
                    /\ task' = [task EXCEPT ![t].pc = "recv"]
                    /\ sockets' = r.sockets
               [] r.kind = "raise" ->
                    /\ task' = [task EXCEPT ![t].pc = "raised", ![t].err = r.err]
                    /\ sockets' = SocketClose(r.sockets, task[t].ws)
    /\ UNCHANGED << room_id, websocket >>

\* the while condition is false: _handle_message returns
Done(t) ==
    /\ task[t].pc = "handling"
    /\ task[t].offset >= Len(task[t].message)
    /\ task' = [task EXCEPT ![t].pc = "recv"]
    /\ UNCHANGED << room_id, websocket, sockets, log >>

\* after the server closed the connection the call connects again
RemoteClose_reconnects(t) ==
    /\ task[t].pc = "recv"
    /\ task' = [task EXCEPT ![t].pc = "connecting"]
    /\ sockets' = SocketClose(sockets, task[t].ws)
    /\ UNCHANGED << room_id, websocket, log >>

\* the server closes the connection normally: the async for ends
RemoteClose(t) ==
    /\ task[t].pc = "recv"
    /\ task' = [task EXCEPT ![t].pc = "returned"]
    /\ sockets' = SocketClose(sockets, task[t].ws)
    /\ UNCHANGED << room_id, websocket, log >>

\* the exception leaves start() without the socket being closed
TransportFailure_keeps_socket(t) ==
    /\ task[t].pc = "recv"
    /\ task' = [task EXCEPT ![t].pc = "raised", ![t].err = "ConnectionClosed"]
    /\ UNCHANGED << room_id, websocket, sockets, log >>

\* the transport fails: the async for raises ConnectionClosed
TransportFailure(t) ==
    /\ task[t].pc = "recv"
    /\ task' = [task EXCEPT ![t].pc = "raised", ![t].err = "ConnectionClosed"]
    /\ sockets' = SocketClose(sockets, task[t].ws)
    /\ UNCHANGED << room_id, websocket, log >>

Next ==
    \E t \in Callers :
        \/ Start(t)
        \/ Lookup(t)
        \/ Connect(t)
        \/ ConnectFail(t)
        \/ SendAuthFail(t)
        \/ Recv(t)
        \/ Step(t)
        \/ Done(t)
        \/ RemoteClose(t)
        \/ TransportFailure(t)

Spec == Init /\ [][Next]_vars

\* the event loop keeps running a coroutine that is not waiting for anything
FairSpec == Spec /\ \A t \in Tasks : WF_vars(Step(t) \/ Done(t))

\* what the server sends when two calls of start() are in flight
ConcMessages ==
    {Ping, Pop100, GoodFrame(COMMAND, JsonDumps(CmdDanmu)), Ping \o Pop100}

\* start() called by any coroutine at any time.  A coroutine runs until it
\* awaits something that is not ready: nothing else runs while a call is in
\* requests.get or inside _handle_message.
Alone(t) == \A u \in Tasks \ {t} : task[u].pc \notin {"lookup", "handling"}

ConcNext ==
    \E t \in Tasks :
        \/ Alone(t) /\ Call(t)
        \/ Alone(t) /\ Lookup(t)
        \/ Alone(t) /\ Connect(t)
        \/ Alone(t) /\ ConnectFail(t)
        \/ Alone(t) /\ SendAuthFail(t)
        \/ Alone(t) /\ RecvFrom(t, ConcMessages)
        \/ Alone(t) /\ Step(t)
        \/ Alone(t) /\ Done(t)
        \/ Alone(t) /\ RemoteClose(t)
        \/ Alone(t) /\ TransportFailure(t)

ConcSpec == Init /\ [][ConcNext]_vars

-----------------------------------------------------------------------------
(* Vocabulary of the properties *)

\* the exceptions that the content of a message can raise
ContentErrors ==
    {"JSONDecodeError", "UnicodeDecodeError", "KeyError", "TypeError", "IndexError"}

\* _handle_message is running
Handling(t) == task[t].pc = "handling"

\* _handle_message has returned for the message the call holds
Handled(t) == task[t].pc = "recv" /\ task[t].message # << >>

\* the call ended with an exception raised by the content of its message
ContentRaised(t) == task[t].pc = "raised" /\ task[t].err # "ConnectionClosed"

\* the frame of a history entry claims more bytes than the message holds
TruncatedEntry(t, e) == e.offset + e.total_len > Len(task[t].message)

RECURSIVE Concat(_, _)
\* fs[1] \o ... \o fs[k]
Concat(fs, k) == IF k = 0 THEN << >> ELSE Concat(fs, k - 1) \o fs[k]

\* the bytes of the frame a history entry describes
EntryBytes(e) ==
    HEADER_STRUCT_pack(e.total_len, e.header_len, e.proto_ver, e.operation, e.sequence)
        \o e.body

-----------------------------------------------------------------------------
\* C1: a frame whose header claims more bytes than remain in the message is
\* not dispatched: it takes no branch of the dispatch (no popularity hook, no
\* command processing, no heartbeat reply), and so raises nothing.
C1_TruncatedFrameNotDispatched ==
    \A t \in Tasks : \A i \in 1 .. Len(log[t].frames) :
        TruncatedEntry(t, log[t].frames[i]) => log[t].frames[i].handler = "none"

\* C2: the frame loop of _handle_message terminates, whatever total_len the
\* headers claim.  The message is fixed and the offset is all an iteration
\* depends on, so the loop ends exactly when every iteration that stays in the
\* loop leaves the offset greater than it found it.
C2_HandleMessageTerminates ==
    [][\A t \in Tasks :
          (Handling(t) /\ task'[t].pc = "handling") => task'[t].offset > task[t].offset]_vars

\* each packet _make_packet builds, with the payload and operation it encodes
RoundTripCases ==
    {[o |-> o, body |-> JsonDumps(p), message |-> _make_packet(p, o)]
        : p \in Payloads, o \in Operations}

\* C3: decoding _make_packet(p, o) yields exactly one frame, with operation o,
\* sequence 1, header_len 16, proto_ver 1, total_len 16 + len(body) and the
\* body the JSON text of p.
C3_RoundTrip ==
    \A t \in Tasks : \A x \in RoundTripCases :
        (task[t].message = x.message /\ (Handled(t) \/ task[t].pc = "raised"))
            => log[t].frames =
                  << [offset |-> 0, handler |-> HandlerOf(x.o),
                      total_len |-> 16 + Len(x.body), header_len |-> 16,
                      proto_ver |-> 1, operation |-> x.o, sequence |-> 1,
                      body |-> x.body] >>

C3_Witness ==
    \E t \in Tasks :
        /\ Handled(t)
        /\ task[t].message = _make_packet(CmdDanmu, COMMAND)
        /\ Len(log[t].frames) = 1
        /\ Len(log[t].hooks) = 1

\* the frames that are well formed: a true total_len, and a body that is what
\* the operation calls for
WellFormedFrames ==
    {Pop100, Ping,
     GoodFrame(AUTH, JsonDumps(JObj(<< >>))),
     GoodFrame(COMMAND, JsonDumps(CmdDanmu)),
     GoodFrame(COMMAND, JsonDumps(JList(<< CmdFoo, CmdDanmu >>)))}

\* the sequences of up to MaxFrames well-formed frames, each with the
\* message that concatenates it
WellFormedCases ==
    {[fs |-> fs, message |-> Concat(fs, Len(fs))]
        : fs \in UNION {[1 .. n -> WellFormedFrames] : n \in 1 .. MaxFrames}}

\* C4: a message that concatenates n well-formed frames is dispatched frame by
\* frame in buffer order: at every point the frames dispatched so far are the
\* first k frames of the message, the offset stands at the end of the k-th,
\* nothing is raised, and when _handle_message returns k = n.
C4_MultiFrameOrder ==
    \A t \in Tasks : \A x \in WellFormedCases :
        task[t].message = x.message =>
            LET k == Len(log[t].frames)
                fs == x.fs
            IN
            /\ ~ContentRaised(t)
            /\ k <= Len(fs)
            /\ \A i \in 1 .. k :
                  /\ EntryBytes(log[t].frames[i]) = fs[i]
                  /\ log[t].frames[i].offset = Len(Concat(fs, i - 1))
            /\ Handling(t) => task[t].offset = Len(Concat(fs, k))
            /\ task[t].pc \in {"recv", "returned", "raised"} => k = Len(fs)

C4_Witness ==
    \E t \in Tasks :
        /\ Handled(t)
        /\ task[t].message = GoodFrame(COMMAND, JsonDumps(CmdDanmu)) \o Pop100
        /\ Len(log[t].frames) = 2
        /\ log[t].frames[2].operation = POPULARITY

\* each good batch, with the one-frame message that carries it
BatchCases ==
    {[leaves |-> Flatten(c.items, 1), message |-> GoodFrame(COMMAND, JsonDumps(c))]
        : c \in GoodBatches}

\* C5: a COMMAND body that is a list, nested to any depth, has each of its
\* command objects dispatched exactly once, depth first and left to right.
C5_BatchFlattening ==
    \A t \in Tasks : \A x \in BatchCases :
        task[t].message = x.message =>
            /\ ~ContentRaised(t)
            /\ Handled(t) => log[t].dispatched = x.leaves

C5_Witness ==
    \E t \in Tasks :
        /\ Handled(t)
        /\ task[t].message =
              GoodFrame(COMMAND, JsonDumps(JList(<< JList(<< CmdFoo >>), CmdDanmu >>)))
        /\ log[t].dispatched = << CmdFoo, CmdDanmu >>

-----------------------------------------------------------------------------
\* the SEND_HEARTBEAT packet, and how many of them socket w has been sent
HeartbeatPacket == _make_packet(JObj(<< >>), SEND_HEARTBEAT)

IsHeartbeatPacket(packet) == packet = HeartbeatPacket
IsPing(e) == e.handler = "heartbeat"

HeartbeatsSent(w) == Len(SelectSeq(sockets[w].sent, IsHeartbeatPacket))

\* the call is connected and authenticated, its socket not closed
Authenticated(t) == task[t].pc \in {"recv", "handling"}

\* C6: each RECV_HEARTBEAT frame dispatched has put exactly one SEND_HEARTBEAT
\* packet on the socket by the time the next frame is looked at: the packets
\* written since the message arrived are one heartbeat per ping dispatched.
C6_PingPong ==
    \A t \in Tasks :
        (Handling(t) \/ Handled(t)) =>
            LET sent == sockets[task[t].ws].sent
                pings == Len(SelectSeq(log[t].frames, IsPing))
            IN  /\ Len(sent) = log[t].sent0 + pings
                /\ \A i \in log[t].sent0 + 1 .. Len(sent) : sent[i] = HeartbeatPacket

\* C7: while the connection stays authenticated, one more SEND_HEARTBEAT packet
\* is always written, whatever the server sends or does not send.
C7_PeriodicHeartbeat ==
    \A t \in Tasks : \A n \in 0 .. 1 :
        (Authenticated(t) /\ HeartbeatsSent(task[t].ws) = n)
            ~> (~Authenticated(t) \/ HeartbeatsSent(task[t].ws) > n)

\* a COMMAND frame with a true total_len whose body json.loads rejects, alone
\* and followed by a good frame, with the number of frames of the message
DecodeErrorCases ==
    {[message |-> GoodFrame(COMMAND, body), frames |-> 1] : body \in BadBodies}
    \cup {[message |-> GoodFrame(COMMAND, << 123 >>) \o g, frames |-> 2] : g \in {Pop100, Ping}}

\* C8: a COMMAND body that is not UTF-8 JSON ends nothing: start() does not
\* raise for it, and the frames after the bad one are still dispatched before
\* the receive loop takes the next message.
C8_DecodeErrorContained ==
    \A t \in Tasks : \A x \in DecodeErrorCases :
        task[t].message = x.message =>
            /\ ~ContentRaised(t)
            /\ ~Handling(t) => Len(log[t].frames) = x.frames

\* C9: once the receive loop runs, start() raises only for a transport
\* failure; nothing in a message makes it raise.
C9_OnlyTransportErrors ==
    \A t \in Tasks :
        (task[t].pc = "raised" /\ task[t].message # << >>) => task[t].err = "ConnectionClosed"

\* the hook calls that a sequence of dispatched commands gives rise to
RECURSIVE HooksOf(_, _)
HooksOf(cs, i) ==
    IF i > Len(cs) THEN << >>
    ELSE (IF cs[i] = CmdDanmu
          THEN << [hook |-> "danmaku", popularity |-> 0,
                   content |-> JStr(<< 104, 105 >>), user_name |-> JStr(<< 65, 108 >>)] >>
          ELSE << >>) \o HooksOf(cs, i + 1)

UnknownOf(cs) == SelectSeq(cs, LAMBDA c : c # CmdDanmu)

\* each good batch with an unknown command in it, followed by a POPULARITY
\* frame, with the message that carries the two
UnknownCases ==
    {[leaves |-> Flatten(c.items, 1),
      message |-> GoodFrame(COMMAND, JsonDumps(c)) \o Pop100]
        : c \in {b \in GoodBatches : \E i \in 1 .. Len(Flatten(b.items, 1)) :
                                        Flatten(b.items, 1)[i] = CmdFoo}}

\* C10: a command with an unknown cmd raises nothing and calls no hook, the
\* commands after it in the batch are dispatched, and so is the next frame.
C10_UnknownCommandNonFatal ==
    \A t \in Tasks : \A x \in UnknownCases :
        task[t].message = x.message =>
            /\ ~ContentRaised(t)
            /\ Handled(t) =>
                  /\ log[t].dispatched = x.leaves
                  /\ log[t].printed = UnknownOf(x.leaves)
                  /\ log[t].hooks = HooksOf(x.leaves, 1)
                        \o << [hook |-> "popularity", popularity |-> 100,
                               content |-> JNull, user_name |-> JNull] >>
                  /\ Len(log[t].frames) = 2

C10_Witness ==
    \E t \in Tasks :
        /\ Handled(t)
        /\ task[t].message =
              GoodFrame(COMMAND, JsonDumps(JList(<< CmdFoo, CmdDanmu >>))) \o Pop100
        /\ log[t].printed = << CmdFoo >>
        /\ Len(log[t].hooks) = 2

-----------------------------------------------------------------------------
\* the header at the offset where the frame loop of call t stands
HeaderAt(t) == HEADER_STRUCT_unpack_from(task[t].message, task[t].offset)

\* the loop of call t is about to look at a whole header
AtFrame(t) ==
    /\ Handling(t)
    /\ task[t].offset < Len(task[t].message)
    /\ HeaderAt(t).ok

\* C11: an inbound frame whose operation is none of POPULARITY, COMMAND and
\* RECV_HEARTBEAT (SEND_HEARTBEAT, AUTH, unknown codes) calls no hook, dispatches
\* no command, writes nothing to any socket and raises nothing; the loop goes
\* on with the offset moved by the frame's total_len.
C11_UnhandledFrameIsNoOp ==
    [][\A t \in Tasks :
          (AtFrame(t) /\ HeaderAt(t).operation \notin {POPULARITY, COMMAND, RECV_HEARTBEAT})
              => /\ task'[t].pc = "handling"
                 /\ task'[t].offset = task[t].offset + HeaderAt(t).total_len
                 /\ log'[t].hooks = log[t].hooks
                 /\ log'[t].dispatched = log[t].dispatched
                 /\ log'[t].printed = log[t].printed
                 /\ sockets' = sockets]_vars

C11_Witness ==
    \E t \in Tasks :
        /\ Handled(t)
        /\ task[t].message = GoodFrame(AUTH, JsonDumps(JObj(<< >>))) \o Pop100
        /\ Len(log[t].frames) = 2
        /\ log[t].frames[1].operation = AUTH
        /\ Len(log[t].hooks) = 1
        /\ log[t].hooks[1].popularity = 100

-----------------------------------------------------------------------------
\* the lookup of call t was answered with a status other than 200
LookupFailed(t) == task[t].status \notin {0, 200}

\* C12: a lookup answered with a status other than 200 ends start() with
\* ConnectionError and nothing else: the room id stays unset, no socket is
\* opened, nothing is written, and the call makes no second lookup.
C12_LookupFailureIsFatal ==
    [][\A t \in Tasks :
          LookupFailed(t)' =>
              /\ task'[t].pc = "raised"
              /\ task'[t].err = "ConnectionError"
              /\ task'[t].ws = None
              /\ room_id' = None
              /\ sockets' = sockets
              /\ websocket' = websocket]_vars

C12_Witness ==
    \E t \in Tasks :
        /\ LookupFailed(t)
        /\ task[t].pc = "raised"
        /\ room_id = None
        /\ sockets = << >>

-----------------------------------------------------------------------------
\* one write to the socket is exactly one frame: a 16-byte header whose
\* total_len is the length of the write, of an operation the client sends
WholeFrame(packet) ==
    LET header == HEADER_STRUCT_unpack_from(packet, 0)
    IN  /\ header.ok
        /\ header.total_len = Len(packet)
        /\ header.header_len = HEADER_STRUCT_size
        /\ header.operation \in {AUTH, SEND_HEARTBEAT}

-----------------------------------------------------------------------------
\* this step hands a message to _handle_message
TakesMessage(t) ==
    /\ task'[t].pc = "handling"
    /\ \/ task[t].pc # "handling"
       \/ task'[t].message # task[t].message
       \/ task'[t].offset < task[t].offset

\* nothing of the message the call holds is left to process: the loop went
\* past its end, or what remains is too short to hold a header
MessageDone(t) ==
    \/ task[t].offset >= Len(task[t].message)
    \/ ~HeaderAt(t).ok

\* C14: the receive loop takes the next raw message only when it is waiting
\* and the message before is processed to its end, every frame, nested
\* command and hook call included; while one call processes a frame no other
\* frame is being processed.
C14_SequentialProcessing ==
    [][\A t \in Tasks :
          TakesMessage(t) =>
              /\ task[t].pc = "recv"
              /\ MessageDone(t)
              /\ \A u \in Tasks \ {t} : ~Handling(u) /\ ~Handling(u)']_vars

\* a message of a ping and a batch of two commands is processed to its end,
\* and the call waits for the next message
C14_Witness ==
    \E t \in Tasks :
        /\ Handled(t)
        /\ task[t].message
              = Ping \o GoodFrame(COMMAND, JsonDumps(JList(<< CmdFoo, CmdDanmu >>)))
        /\ task[t].offset = Len(task[t].message)
        /\ Len(log[t].frames) = 2
        /\ Len(log[t].dispatched) = 2
        /\ Len(log[t].hooks) = 1

-----------------------------------------------------------------------------
OpenSockets == {w \in 1 .. Len(sockets) : sockets[w].open}

-----------------------------------------------------------------------------
\* C16: when a connection closes, by remote close or by transport failure,
\* its call stops receiving, the socket is released exactly once, and from
\* then on nothing is written to the socket and no frame that arrived on it
\* is dispatched.
C16_DeterministicShutdown ==
    [][/\ \A w \in 1 .. Len(sockets) :
             ~sockets[w].open => sockets'[w] = sockets[w]
       /\ \A w \in 1 .. Len(sockets') :
             sockets'[w].released = IF sockets'[w].open THEN 0 ELSE 1
       /\ \A t \in Tasks :
             task'[t].ws # None =>
                 (sockets'[task'[t].ws].open <=> Authenticated(t)')
       /\ \A t \in Tasks :
             (task[t].ws # None /\ ~sockets[task[t].ws].open /\ ~TakesMessage(t))
                 => (log'[t] = log[t] \/ log'[t] = NoLog)]_vars

\* the transport failed after a message was handled: the socket is released
\* once and holds nothing but the AUTH packet
C16_Witness ==
    \E t \in Tasks :
        /\ task[t].pc = "raised"
        /\ task[t].err = "ConnectionClosed"
        /\ task[t].message # << >>
        /\ task[t].ws # None
        /\ ~sockets[task[t].ws].open
        /\ sockets[task[t].ws].released = 1
        /\ Len(sockets[task[t].ws].sent) = 1

-----------------------------------------------------------------------------
\* how far a call of start() has come: Disconnected, ResolvingRoom,
\* Connected (the socket is about to open), Authenticated, Closed
Rank(pc) ==
    CASE pc = "idle" -> 0
      [] pc = "lookup" -> 1
      [] pc = "connecting" -> 2
      [] pc \in {"recv", "handling"} -> 3
      [] pc \in {"returned", "raised"} -> 4

Closed(t) == task[t].pc \in {"returned", "raised"}

\* this step is a new call of start()
NewCall(t) == Ended(t) /\ task'[t].pc \in {"lookup", "connecting"}

IsAuthPacket(packet) == HEADER_STRUCT_unpack_from(packet, 0).operation = AUTH

\* C17: within one call of start() the state never goes back: no reconnect,
\* no second lookup, no second AUTH on a socket; and a closed call stays as
\* it is, whether it was closed by the server or by a failure.
C17_ForwardOnly ==
    [][\A t \in Tasks :
          \/ NewCall(t)
          \/ /\ Rank(task'[t].pc) >= Rank(task[t].pc)
             /\ task[t].status # 0 => task'[t].status = task[t].status
             /\ task[t].ws # None =>
                   /\ task'[t].ws = task[t].ws
                   /\ Len(SelectSeq(sockets'[task[t].ws].sent, IsAuthPacket)) <= 1
             /\ Closed(t) => task'[t] = task[t]]_vars

\* a call that went through every state: room looked up, socket opened and
\* authenticated, a message handled, closed by the server
C17_Witness ==
    \E t \in Tasks :
        /\ task[t].pc = "returned"
        /\ task[t].status = 200
        /\ task[t].message # << >>
        /\ ~sockets[task[t].ws].open

-----------------------------------------------------------------------------
IsPopularityFrame(e) == e.handler = "popularity"
IsPopularityCall(h) == h.hook = "popularity"

\* C18: each POPULARITY frame dispatched has called the popularity hook once,
\* with the big-endian unsigned integer of the first 4 bytes of the frame's
\* own body; no byte outside the frame takes part in the value.
C18_PopularityFromOwnBody ==
    \A t \in Tasks :
        (Handling(t) \/ Handled(t)) =>
            LET pops == SelectSeq(log[t].frames, IsPopularityFrame)
                calls == SelectSeq(log[t].hooks, IsPopularityCall)
            IN  /\ Len(calls) = Len(pops)
                /\ \A i \in 1 .. Len(pops) :
                      calls[i].popularity = FromBytes(PySlice(pops[i].body, 0, 4))

-----------------------------------------------------------------------------
\* the packet, decoded as the server decodes it, is an AUTH frame whose JSON
\* body names this room and uid 0
IsAuthFor(packet, room) ==
    LET header == HEADER_STRUCT_unpack_from(packet, 0)
        body == JsonLoads(SubSeq(packet, HEADER_STRUCT_size + 1, Len(packet)))
    IN  /\ header.ok
        /\ header.total_len = Len(packet)
        /\ header.operation = AUTH
        /\ body.err = ""
        /\ GetKey(body.val, S_roomid) = Got(JNum(room))
        /\ GetKey(body.val, S_uid) = Got(JNum(0))

\* the packets the client has code to write
Written == {_make_packet(auth_params(r), AUTH) : r \in RoomIds} \cup {HeartbeatPacket}

\* each of these with each room, and whether it decodes as the AUTH frame
\* of that room
AuthCases ==
    {[room |-> r, packet |-> p, auth |-> IsAuthFor(p, r)] : r \in RoomIds, p \in Written}

\* the first packet on the call's socket is the AUTH packet of the resolved
\* room, and the socket holds no other AUTH packet
AuthFirst(room, w, socks) ==
    /\ room # None
    /\ w # None
    /\ Len(socks[w].sent) >= 1
    /\ \E c \in AuthCases : c.room = room /\ c.packet = socks[w].sent[1] /\ c.auth
    /\ Len(SelectSeq(socks[w].sent, IsAuthPacket)) = 1

\* C19: a call of start() that reaches its receive loop has written exactly
\* one AUTH frame, as the first frame on its socket, with the resolved room
\* id and uid 0; it is written when the room id is known and the socket is
\* open, before any inbound message is dispatched.
C19_HandshakeOrdering ==
    [][\A t \in Tasks :
          /\ (Authenticated(t)' \/ task'[t].message # << >>)
                => AuthFirst(room_id', task'[t].ws, sockets')
          /\ (~Authenticated(t) /\ Authenticated(t)') =>
                /\ task[t].pc = "connecting"
                /\ room_id # None
                /\ sockets'[task'[t].ws].open
                /\ task'[t].message = << >>
                /\ log'[t] = NoLog]_vars

\* a message is being dispatched on a socket that holds its AUTH packet
C19_Witness ==
    \E t \in Tasks :
        /\ Handling(t)
        /\ Len(log[t].frames) = 1
        /\ room_id = 23
        /\ sockets[task[t].ws].sent = << _make_packet(auth_params(23), AUTH) >>

-----------------------------------------------------------------------------
\* C20: over any sequence of start() calls the lookup is issued only while no
\* room id is cached; a lookup stores a room id exactly when it is answered
\* with 200; a start() with a cached room id issues no lookup and one without
\* does; and a cached room id never changes.
C20_RoomIdFrozen ==
    [][/\ room_id # None => room_id' = room_id
       /\ \A t \in Tasks :
             /\ task'[t].pc = "lookup" => (room_id = None /\ room_id' = None)
             /\ NewCall(t) => (task'[t].pc = "lookup" <=> room_id = None)
             /\ (task[t].pc = "lookup" /\ task'[t].pc # "lookup")
                   => (room_id' # None <=> task'[t].status = 200)]_vars

\* after a connection that was closed, a second start() goes to connect with
\* the cached room id and without a lookup of its own
C20_Witness ==
    \E t \in Tasks :
        /\ task[t].pc = "connecting"
        /\ task[t].status = 0
        /\ room_id = 23
        /\ Len(sockets) = 1
        /\ ~sockets[1].open

====
